---- MODULE Spec2Model ----
(***************************************************************************)
(* js-currency-converter: a rate cache with request coalescing and stale   *)
(* fallback (src/src/js-currency-converter.js).                            *)
(*                                                                         *)
(* The module's state is SETTINGS, CACHED_RATES and CONVERSIONS_IN_PROGRESS*)
(* plus the browser's localStorage and clock.  The jQuery deferreds are    *)
(* modelled explicitly: `fetches` holds one entry per $.get issued (the    *)
(* deferred of fetchQuote and its callback list), `calls` one entry per    *)
(* call of the public API with the outcome its caller observes.  Both keep *)
(* an entry while it is pending and through the turn that settles it.      *)
(* jQuery runs .done/.fail callbacks synchronously, in the order they were *)
(* attached, inside deferred.resolve/reject; `firing` is the fetch whose   *)
(* callback list is being run, and a callback may itself call the API.     *)
(***************************************************************************)
EXTENDS Integers, Sequences, FiniteSets, TLC

\* ------------------------------------------------------------ bounds
MaxTime == 2
MaxCalls == 2

\* ------------------------------------------------------------ inputs
Pairs == {<<"USD", "EUR">>, <<"EUR", "USD">>}
Rates == {5, 7}
Errors == {"timeout", "http500"}
Amounts == {3}
\* arguments of config: a non-object, and objects overriding one setting
Options ==
  {[type |-> "number"],
   [type |-> "object", props |-> [RATES_VALIDITY_HOURS |-> 0]],
   [type |-> "object", props |-> [CACHE_TO_LOCAL_STORAGE |-> FALSE]]}

\* no promise / no fetch
Null == 0
\* the JavaScript values undefined and null
undefined == [type |-> "undefined"]
null == [type |-> "null"]

\* one model time unit is 24 hours
HOURS_24 == 1
DEFAULT_NAME == "JS_CURRENCY_CONVERTER_CACHED_RATES"
DEFAULT_SETTINGS ==
  [RATES_VALIDITY_HOURS |-> HOURS_24,
   CACHE_TO_LOCAL_STORAGE |-> TRUE,
   LOCAL_STORAGE_VARIABLE_NAME |-> DEFAULT_NAME,
   API_URL |-> "http://free.currencyconverterapi.com/api/v3/convert?compact=y&q="]

\* constructed: the module factory returned (it did not throw);
\* storageAvailable: the probe of isLocalStorageAvailable succeeds;
\* quotaExceeded: localStorage has room for the probe but not for the rates
VARIABLES now, SETTINGS, CACHED_RATES, CONVERSIONS_IN_PROGRESS,
          localStorage, storageAvailable, quotaExceeded, constructed,
          fetches, calls, firing, issued

vars == <<now, SETTINGS, CACHED_RATES, CONVERSIONS_IN_PROGRESS,
          localStorage, storageAvailable, quotaExceeded, constructed,
          fetches, calls, firing, issued>>

\* what the module never changes
environment == <<storageAvailable, quotaExceeded, constructed>>

\* ------------------------------------------------------------ utils
toQuery(fromCurrency, toCurrency) == fromCurrency \o "_" \o toCurrency

Queries == {toQuery(p[1], p[2]) : p \in Pairs}

isObject(value) == value # null /\ value.type \in {"object", "Date"}

isString(value) == value.type = "string"

\* new Date() at instant t, Date.prototype.getTime
newDate(t) == [type |-> "Date", time |-> t]
getTime(d) == d.time
\* Date.prototype.toJSON gives the ISO text of the instant; a string stays a string
toJSON(d) == IF d.type = "Date" THEN [type |-> "string", iso |-> d.time] ELSE d
\* faulty variant: the text is not understood and the date is the epoch
parseDateEpoch(s) == [type |-> "Date", time |-> 0]

\* new Date(isoText)
parseDate(s) == [type |-> "Date", time |-> s.iso]

JSONstringify(rates) ==
  [type |-> "string", json |-> [q \in Queries |->
     IF rates[q] = undefined THEN undefined
     ELSE [type |-> "object", value |-> rates[q].value, date |-> toJSON(rates[q].date)]]]

\* the exception JSON.parse throws on text that is no JSON
SyntaxError == [type |-> "SyntaxError"]

\* localStorage.getItem gives null for a missing item, and JSON.parse(null) is null
JSONparse(item) ==
  IF item = null THEN null
  ELSE IF "json" \in DOMAIN item THEN item.json
  ELSE SyntaxError

isLocalStorageAvailable == storageAvailable

getFromLocalStorage(key) ==
  IF isLocalStorageAvailable THEN JSONparse(localStorage[key]) ELSE undefined

\* localStorage.setItem(key, JSON.stringify(value)) throws: the probe fitted, the rates do not
saveToLocalStorageThrows(key, value) == isLocalStorageAvailable /\ quotaExceeded

\* the new contents of localStorage
saveToLocalStorage(key, value) ==
  IF isLocalStorageAvailable
  THEN [localStorage EXCEPT ![key] = JSONstringify(value)]
  ELSE localStorage

\* ------------------------------------------------------------ helpers
\* faulty variant: the promise is never registered
setConversionInProgressForgets(query, promise) == CONVERSIONS_IN_PROGRESS

setConversionInProgress(query, promise) ==
  [CONVERSIONS_IN_PROGRESS EXCEPT ![query] = promise]

\* faulty variant: the registry is never consulted
getConversionInProgressNever(query) == Null

getConversionInProgress(query) == CONVERSIONS_IN_PROGRESS[query]

isRateCached(queryCode) == isObject(CACHED_RATES[queryCode])

\* faulty variant: a record exactly at the validity boundary counts as expired
isRateExpiredAtBoundary(rate) ==
  LET compareDate == IF isString(rate.date) THEN parseDate(rate.date) ELSE rate.date
  IN (now - getTime(compareDate)) >= SETTINGS.RATES_VALIDITY_HOURS

isRateExpired(rate) ==
  LET compareDate == IF isString(rate.date) THEN parseDate(rate.date) ELSE rate.date
  IN (now - getTime(compareDate)) > SETTINGS.RATES_VALIDITY_HOURS

isRateValid(queryCode) ==
  isObject(CACHED_RATES[queryCode]) /\ ~isRateExpired(CACHED_RATES[queryCode])

\* faulty variant: the record is dated new Date(0) instead of new Date()
cacheRateMemoryEpoch(rateName, value) ==
  [CACHED_RATES EXCEPT ![rateName] =
     [type |-> "object", value |-> value, date |-> newDate(0)]]

\* faulty variant: the cache is rebuilt with the new record alone
cacheRateMemoryOnlyLatest(rateName, value) ==
  [q \in Queries |->
     IF q = rateName
     THEN [type |-> "object", value |-> value, date |-> newDate(now)]
     ELSE undefined]

\* the new CACHED_RATES
cacheRateMemory(rateName, value) ==
  [CACHED_RATES EXCEPT ![rateName] =
     [type |-> "object", value |-> value, date |-> newDate(now)]]

\* faulty variant: the cache is saved before the new record is assigned
cacheRateStorageBeforeAssign(rateName, value) ==
  IF SETTINGS.CACHE_TO_LOCAL_STORAGE
  THEN saveToLocalStorage(SETTINGS.LOCAL_STORAGE_VARIABLE_NAME, CACHED_RATES)
  ELSE localStorage

\* the new localStorage
cacheRateStorage(rateName, value) ==
  IF SETTINGS.CACHE_TO_LOCAL_STORAGE
  THEN saveToLocalStorage(SETTINGS.LOCAL_STORAGE_VARIABLE_NAME, cacheRateMemory(rateName, value))
  ELSE localStorage

\* cacheRate throws after it has assigned CACHED_RATES[rateName]
cacheRateThrows(rateName, value) ==
  /\ SETTINGS.CACHE_TO_LOCAL_STORAGE
  /\ saveToLocalStorageThrows(SETTINGS.LOCAL_STORAGE_VARIABLE_NAME,
                              cacheRateMemory(rateName, value))

\* ------------------------------------------------------------ deferreds
Pending == [state |-> "pending"]
Resolved(data) == [state |-> "resolved", data |-> data]
Rejected(error) == [state |-> "rejected", error |-> error]

\* getRate.resolveRate
resolveRate(isExpired, rateValue) == Resolved([expired |-> isExpired, rate |-> rateValue])

\* faulty variant: a fetched rate is reported as expired
fetchOnSuccessExpired(rate) == resolveRate(TRUE, rate)

\* getRate.fetchOnSuccess
fetchOnSuccess(rate) == resolveRate(FALSE, rate)

\* faulty variant: no fallback to the cached rate
oldRateFallbackRejects(query, error) == Rejected(error)

\* faulty variant: the error of the remote source is replaced by one of the module
oldRateFallbackOwnError(query, error) ==
  IF isRateCached(query)
  THEN resolveRate(TRUE, CACHED_RATES[query].value)
  ELSE Rejected("no rate available")

\* getRate.oldRateFallback
oldRateFallback(query, error) ==
  IF isRateCached(query)
  THEN resolveRate(TRUE, CACHED_RATES[query].value)
  ELSE Rejected(error)

\* faulty variant: a new result object is built and the expired flag is not carried over
convertAmount_onSuccessDropsExpired(amount, data) ==
  Resolved([expired |-> FALSE, rate |-> data.rate, value |-> amount * data.rate])

\* convertAmount.onSuccess
convertAmount_onSuccess(amount, data) ==
  Resolved([expired |-> data.expired, rate |-> data.rate, value |-> amount * data.rate])

\* convertAmount.onError
convertAmount_onError(error) == Rejected(error)

\* the .done/.fail callbacks convertAmount attaches to the promise of getRate
convertAmount_settle(amount, gr) ==
  IF gr.state = "resolved" THEN convertAmount_onSuccess(amount, gr.data)
  ELSE convertAmount_onError(gr.error)

\* the .done/.fail callbacks getRate attaches to the promise of fetchQuote
getRate_settle(query, fetch) ==
  IF fetch.state = "resolved" THEN fetchOnSuccess(fetch.result)
  ELSE oldRateFallback(query, fetch.result)

\* deferred.resolve(val) / deferred.reject(error) as seen by a caller of fetchQuote
fetchQuote_settle(fetch) ==
  IF fetch.state = "resolved" THEN Resolved(fetch.result) ELSE Rejected(fetch.result)

\* the callbacks a call attached to the promise of fetchQuote, run for a settled fetch
Settle(call, fetch) ==
  CASE call.op = "fetchQuote" ->
         [call EXCEPT !.out = fetchQuote_settle(fetch)]
    [] call.op = "getRate" ->
         [call EXCEPT !.out = getRate_settle(call.query, fetch)]
    [] call.op = "convertAmount" ->
         [call EXCEPT !.gr = getRate_settle(call.query, fetch),
                      !.out = convertAmount_settle(call.amount, getRate_settle(call.query, fetch))]

\* ------------------------------------------------------------ bookkeeping
Slots == 1..MaxCalls
Free == [op |-> "free"]

\* hadRecord: whether a record of the pair was cached when the call was made;
\* joined: how the call got its rate: "none" (cache hit), "started" (it issued the $.get),
\* "pending" (it got the promise of a fetch still outstanding), "settled" (it got the
\* promise of a fetch that had already completed)
NewCall(op, query, amount) ==
  [op |-> op, query |-> query, amount |-> amount, fetch |-> Null, joined |-> "none",
   hadRecord |-> CACHED_RATES[query] # undefined, out |-> Pending, gr |-> Pending]

NewFetch(query, cid) ==
  [op |-> "get", query |-> query, state |-> "pending", result |-> undefined,
   waiters |-> <<cid>>, fired |-> 0]

IsCall(c) == c.op # "free"
IsFetch(f) == f.op # "free"

\* between turns the settled calls and the completed, dereferenced fetches are forgotten
LiveCalls ==
  IF firing # Null THEN calls
  ELSE [s \in Slots |-> IF IsCall(calls[s]) /\ calls[s].out.state # "pending"
                        THEN Free ELSE calls[s]]

LiveFetches ==
  IF firing # Null THEN fetches
  ELSE [f \in Slots |-> IF /\ IsFetch(fetches[f])
                           /\ fetches[f].state # "pending"
                           /\ CONVERSIONS_IN_PROGRESS[fetches[f].query] # f
                        THEN Free ELSE fetches[f]]

FreeSlot(table) == CHOOSE s \in Slots : table[s] = Free /\ \A t \in Slots : table[t] = Free => s <= t

\* ------------------------------------------------------------ Init
\* what an earlier page may have left in localStorage: a record written at instant t
Stored(t) ==
  [type |-> "string", json |-> [q \in Queries |->
     IF q = "USD_EUR"
     THEN [type |-> "object", value |-> 5, date |-> [type |-> "string", iso |-> t]]
     ELSE undefined]]

\* an item that is no JSON text
Corrupt == [type |-> "string", text |-> "{not json"]

EmptyRates == [q \in Queries |-> undefined]

OrEmpty(loaded) == IF loaded = null \/ loaded = undefined THEN EmptyRates ELSE loaded

\* line 20: the value the initialiser of CACHED_RATES computes, or the exception it throws
InitialRates ==
  IF DEFAULT_SETTINGS.CACHE_TO_LOCAL_STORAGE
  THEN LET loaded == getFromLocalStorage(DEFAULT_SETTINGS.LOCAL_STORAGE_VARIABLE_NAME)
       IN IF loaded = SyntaxError THEN SyntaxError ELSE OrEmpty(loaded)
  ELSE EmptyRates

\* construction (lines 13-32) over whatever localStorage holds
Construct ==
  /\ now = 0
  /\ SETTINGS = DEFAULT_SETTINGS
  /\ storageAvailable \in BOOLEAN
  /\ localStorage \in {[n \in {DEFAULT_NAME} |-> item] :
                          item \in {null, Corrupt, Stored(0 - 2), Stored(0)}}
  /\ constructed = (InitialRates # SyntaxError)
  /\ CACHED_RATES = IF InitialRates = SyntaxError THEN EmptyRates ELSE InitialRates
  /\ CONVERSIONS_IN_PROGRESS = [q \in Queries |-> Null]
  /\ fetches = [f \in Slots |-> Free]
  /\ calls = [s \in Slots |-> Free]
  /\ firing = Null
  /\ issued = 0

Init == Construct /\ quotaExceeded = FALSE

\* ------------------------------------------------------------ actions
\* the API may be called from the top level, or from inside a callback that is running
InCallback == constructed /\ (firing # Null => fetches[firing].fired >= 1)

CanCall ==
  /\ issued < MaxCalls
  /\ issued' = issued + 1
  /\ InCallback

\* faulty variant: a joining caller gets a promise of its own that nobody settles
fetchQuoteBodyDetached(c) ==
  LET cid == FreeSlot(LiveCalls)
      fid == FreeSlot(LiveFetches)
      inProgressPromise == getConversionInProgress(c.query)
  IN IF inProgressPromise # Null
     THEN /\ UNCHANGED CONVERSIONS_IN_PROGRESS
          /\ IF fetches[inProgressPromise].state \in {"pending", "thrown"}
                \/ firing = inProgressPromise
             THEN \* the callbacks are attached to nothing
                  /\ fetches' = LiveFetches
                  /\ calls' = [LiveCalls EXCEPT ![cid] =
                       [c EXCEPT !.fetch = inProgressPromise,
                                 !.joined = IF fetches[inProgressPromise].state = "resolved"
                                               \/ fetches[inProgressPromise].state = "rejected"
                                            THEN "settled" ELSE "pending"]]
             ELSE \* a settled promise runs the callbacks at once
                  /\ fetches' = LiveFetches
                  /\ calls' = [LiveCalls EXCEPT ![cid] =
                       Settle([c EXCEPT !.fetch = inProgressPromise, !.joined = "settled"],
                              fetches[inProgressPromise])]
     ELSE /\ fetches' = [LiveFetches EXCEPT ![fid] = NewFetch(c.query, cid)]
          /\ CONVERSIONS_IN_PROGRESS' = setConversionInProgress(c.query, fid)
          /\ calls' = [LiveCalls EXCEPT ![cid] = [c EXCEPT !.fetch = fid, !.joined = "started"]]

\* fetchQuote (lines 79-99) on behalf of the new call c
fetchQuoteBody(c) ==
  LET cid == FreeSlot(LiveCalls)
      fid == FreeSlot(LiveFetches)
      inProgressPromise == getConversionInProgress(c.query)
  IN IF inProgressPromise # Null
     THEN /\ UNCHANGED CONVERSIONS_IN_PROGRESS
          /\ IF fetches[inProgressPromise].state \in {"pending", "thrown"}
                \/ firing = inProgressPromise
             THEN \* the callbacks join the list of the promise
                  /\ fetches' = [LiveFetches EXCEPT ![inProgressPromise].waiters = Append(@, cid)]
                  /\ calls' = [LiveCalls EXCEPT ![cid] =
                       [c EXCEPT !.fetch = inProgressPromise,
                                 !.joined = IF fetches[inProgressPromise].state = "resolved"
                                               \/ fetches[inProgressPromise].state = "rejected"
                                            THEN "settled" ELSE "pending"]]
             ELSE \* a settled promise runs the callbacks at once
                  /\ fetches' = LiveFetches
                  /\ calls' = [LiveCalls EXCEPT ![cid] =
                       Settle([c EXCEPT !.fetch = inProgressPromise, !.joined = "settled"],
                              fetches[inProgressPromise])]
     ELSE /\ fetches' = [LiveFetches EXCEPT ![fid] = NewFetch(c.query, cid)]
          /\ CONVERSIONS_IN_PROGRESS' = setConversionInProgress(c.query, fid)
          /\ calls' = [LiveCalls EXCEPT ![cid] = [c EXCEPT !.fetch = fid, !.joined = "started"]]

\* getRate (lines 131-147) on behalf of the new call c
getRateBody(c) ==
  IF isRateValid(c.query)
  THEN /\ calls' = [LiveCalls EXCEPT ![FreeSlot(LiveCalls)] =
            IF c.op = "getRate"
            THEN [c EXCEPT !.out = resolveRate(FALSE, CACHED_RATES[c.query].value)]
            ELSE [c EXCEPT !.gr = resolveRate(FALSE, CACHED_RATES[c.query].value),
                           !.out = convertAmount_settle(c.amount,
                                      resolveRate(FALSE, CACHED_RATES[c.query].value))]]
       /\ fetches' = LiveFetches
       /\ UNCHANGED CONVERSIONS_IN_PROGRESS
  ELSE fetchQuoteBody(c)

\* faulty variant: fetchQuote serves a fresh cached rate instead of asking the remote source
fetchQuoteServesCache(fromCurrency, toCurrency) ==
  /\ CanCall
  /\ LET c == NewCall("fetchQuote", toQuery(fromCurrency, toCurrency), 0)
     IN IF isRateValid(c.query)
        THEN /\ calls' = [LiveCalls EXCEPT ![FreeSlot(LiveCalls)] =
                          [c EXCEPT !.out = Resolved(CACHED_RATES[c.query].value)]]
             /\ fetches' = LiveFetches
             /\ UNCHANGED CONVERSIONS_IN_PROGRESS
        ELSE fetchQuoteBody(c)
  /\ UNCHANGED <<now, SETTINGS, CACHED_RATES, localStorage, environment, firing>>

fetchQuote(fromCurrency, toCurrency) ==
  /\ CanCall
  /\ fetchQuoteBody(NewCall("fetchQuote", toQuery(fromCurrency, toCurrency), 0))
  /\ UNCHANGED <<now, SETTINGS, CACHED_RATES, localStorage, environment, firing>>

getRate(fromCurrency, toCurrency) ==
  /\ CanCall
  /\ getRateBody(NewCall("getRate", toQuery(fromCurrency, toCurrency), 0))
  /\ UNCHANGED <<now, SETTINGS, CACHED_RATES, localStorage, environment, firing>>

convertAmount(amount, fromCurrency, toCurrency) ==
  /\ CanCall
  /\ getRateBody(NewCall("convertAmount", toQuery(fromCurrency, toCurrency), amount))
  /\ UNCHANGED <<now, SETTINGS, CACHED_RATES, localStorage, environment, firing>>

\* fetchQuote.onSuccess (lines 101-105): the $.get of fetch f answers with rate val;
\* deferred.resolve then runs the callbacks (FireCallback) before onAlways.
\* When cacheRate throws, the exception leaves onSuccess before deferred.resolve and
\* leaves the callback list of the $.get before onAlways: the deferred stays pending
\* and registered ("thrown").
fetchQuote_onSuccess(f, val) ==
  /\ firing = Null
  /\ IsFetch(fetches[f]) /\ fetches[f].state = "pending"
  /\ CACHED_RATES' = cacheRateMemory(fetches[f].query, val)
  /\ calls' = LiveCalls
  /\ IF cacheRateThrows(fetches[f].query, val)
     THEN /\ localStorage' = localStorage
          /\ fetches' = [LiveFetches EXCEPT ![f].state = "thrown", ![f].result = val]
          /\ firing' = Null
     ELSE /\ localStorage' = cacheRateStorage(fetches[f].query, val)
          /\ fetches' = [LiveFetches EXCEPT ![f].state = "resolved", ![f].result = val]
          /\ firing' = f
  /\ UNCHANGED <<now, SETTINGS, CONVERSIONS_IN_PROGRESS, environment, issued>>

\* faulty variant: a failed fetch evicts the record of its pair
fetchQuote_onErrorEvicts(f, error) ==
  /\ firing = Null
  /\ IsFetch(fetches[f]) /\ fetches[f].state = "pending"
  /\ fetches' = [LiveFetches EXCEPT ![f].state = "rejected", ![f].result = error]
  /\ calls' = LiveCalls
  /\ firing' = f
  /\ CACHED_RATES' = [CACHED_RATES EXCEPT ![fetches[f].query] = undefined]
  /\ UNCHANGED <<now, SETTINGS, CONVERSIONS_IN_PROGRESS, localStorage, environment, issued>>

\* fetchQuote.onError (lines 107-109)
fetchQuote_onError(f, error) ==
  /\ firing = Null
  /\ IsFetch(fetches[f]) /\ fetches[f].state = "pending"
  /\ fetches' = [LiveFetches EXCEPT ![f].state = "rejected", ![f].result = error]
  /\ calls' = LiveCalls
  /\ firing' = f
  /\ UNCHANGED <<now, SETTINGS, CACHED_RATES, CONVERSIONS_IN_PROGRESS, localStorage,
                 environment, issued>>

\* deferred.resolve / deferred.reject running the next callback of the list
FireCallback ==
  /\ firing # Null
  /\ fetches[firing].fired < Len(fetches[firing].waiters)
  /\ LET cid == fetches[firing].waiters[fetches[firing].fired + 1]
     IN calls' = [calls EXCEPT ![cid] = Settle(calls[cid], fetches[firing])]
  /\ fetches' = [fetches EXCEPT ![firing].fired = @ + 1]
  /\ UNCHANGED <<now, SETTINGS, CACHED_RATES, CONVERSIONS_IN_PROGRESS, localStorage,
                 environment, firing, issued>>

\* faulty variant: the entry is dereferenced on success only
fetchQuote_onAlwaysOnSuccess ==
  /\ firing # Null
  /\ fetches[firing].fired = Len(fetches[firing].waiters)
  /\ CONVERSIONS_IN_PROGRESS' =
       IF fetches[firing].state = "resolved"
       THEN setConversionInProgress(fetches[firing].query, Null)
       ELSE CONVERSIONS_IN_PROGRESS
  /\ firing' = Null
  /\ UNCHANGED <<now, SETTINGS, CACHED_RATES, localStorage, environment, fetches, calls,
                 issued>>

\* fetchQuote.onAlways (lines 111-114), after every callback of the deferred has run
fetchQuote_onAlways ==
  /\ firing # Null
  /\ fetches[firing].fired = Len(fetches[firing].waiters)
  /\ CONVERSIONS_IN_PROGRESS' = setConversionInProgress(fetches[firing].query, Null)
  /\ firing' = Null
  /\ UNCHANGED <<now, SETTINGS, CACHED_RATES, localStorage, environment, fetches, calls,
                 issued>>

\* faulty variant: the options are merged with the defaults, not with the current settings
extendDefaults(target, props) ==
  [k \in (DOMAIN target) \union (DOMAIN props) |->
     IF k \in DOMAIN props THEN props[k] ELSE DEFAULT_SETTINGS[k]]

\* $.extend(target, object): the own properties of object are copied onto target
extend(target, props) ==
  [k \in (DOMAIN target) \union (DOMAIN props) |->
     IF k \in DOMAIN props THEN props[k] ELSE target[k]]

\* config (lines 185-189)
config(options) ==
  /\ InCallback
  /\ SETTINGS' = IF isObject(options) THEN extend(SETTINGS, options.props) ELSE SETTINGS
  /\ calls' = LiveCalls
  /\ fetches' = LiveFetches
  /\ UNCHANGED <<now, CACHED_RATES, CONVERSIONS_IN_PROGRESS, localStorage, environment,
                 firing, issued>>

\* the clock advances between turns of the event loop
Tick ==
  /\ constructed
  /\ firing = Null
  /\ now < MaxTime
  /\ now' = now + 1
  /\ calls' = LiveCalls
  /\ fetches' = LiveFetches
  /\ UNCHANGED <<SETTINGS, CACHED_RATES, CONVERSIONS_IN_PROGRESS, localStorage,
                 environment, firing, issued>>

Next ==
  \/ \E p \in Pairs : fetchQuote(p[1], p[2])
  \/ \E p \in Pairs : getRate(p[1], p[2])
  \/ \E p \in Pairs, amount \in Amounts : convertAmount(amount, p[1], p[2])
  \/ \E f \in Slots, val \in Rates : fetchQuote_onSuccess(f, val)
  \/ \E f \in Slots, error \in Errors : fetchQuote_onError(f, error)
  \/ \E options \in Options : config(options)
  \/ FireCallback
  \/ fetchQuote_onAlways
  \/ Tick

Spec == Init /\ [][Next]_vars

\* every $.get completes, with success or with failure, and the callbacks of a
\* completed $.get run to the end, onAlways last (jQuery runs them in one
\* synchronous loop)
Fairness ==
  /\ \A f \in Slots :
       WF_vars(\/ \E val \in Rates : fetchQuote_onSuccess(f, val)
               \/ \E error \in Errors : fetchQuote_onError(f, error))
  /\ WF_vars(FireCallback \/ fetchQuote_onAlways)

SpecFair == Spec /\ Fairness

\* the same module in a browser whose localStorage may be nearly full
InitQuota == Construct /\ quotaExceeded \in BOOLEAN

SpecQuota == InitQuota /\ [][Next]_vars

\* ------------------------------------------------------------ vocabulary of the claims
LiveSlots == {s \in Slots : IsCall(calls[s])}
LiveGets == {f \in Slots : IsFetch(fetches[f])}

\* the calls that go through getRate, and the outcome of the deferred of getRate
IsGetRate(c) == c.op \in {"getRate", "convertAmount"}
GR(c) == IF c.op = "convertAmount" THEN c.gr ELSE c.out

\* the instant a cached record was written, whichever form its date has
RecordTime(rate) == IF rate.date.type = "string" THEN rate.date.iso ELSE rate.date.time

\* a record of the pair is cached and its age is within the validity period
FreshRecord(q) ==
  /\ CACHED_RATES[q] # undefined
  /\ now - RecordTime(CACHED_RATES[q]) <= SETTINGS.RATES_VALIDITY_HOURS

\* a $.get for the pair is outstanding or its completion is being handled
InFlight(q) == \E f \in Slots : IsFetch(LiveFetches[f]) /\ LiveFetches[f].query = q

\* this step is a call of one of ops for pair q, recorded in slot s
Called(s, ops, q) ==
  /\ issued' = issued + 1
  /\ ~IsCall(LiveCalls[s])
  /\ IsCall(calls'[s])
  /\ calls'[s].op \in ops
  /\ calls'[s].query = q

\* the $.get requests this step issues
NewGets == {f \in Slots : ~IsFetch(LiveFetches[f]) /\ IsFetch(fetches'[f])}

\* ------------------------------------------------------------ claims

C2_OneOutstandingPerKey ==
  \A q \in Queries :
    Cardinality({f \in LiveGets : fetches[f].query = q /\ fetches[f].state = "pending"}) <= 1

C2_Witness ==
  \E s \in LiveSlots, t \in LiveSlots :
    /\ calls[s].op = "fetchQuote" /\ calls[s].joined = "started"
    /\ calls[t].op = "convertAmount" /\ calls[t].joined = "pending"
    /\ calls[s].fetch = calls[t].fetch
    /\ fetches[calls[s].fetch].state = "pending"

\* C3: a getRate call for a pair whose cached record is within the validity period
\* resolves at once with {rate: the cached value, expired: false} and issues no $.get,
\* whether or not a fetch for the pair is in flight.
C3_FreshHitNoFetch ==
  [][\A s \in Slots, q \in Queries :
       (Called(s, {"getRate", "convertAmount"}, q) /\ FreshRecord(q))
       => /\ GR(calls'[s]) = Resolved([expired |-> FALSE, rate |-> CACHED_RATES[q].value])
          /\ NewGets = {}
          /\ calls'[s].fetch = Null]_vars

C3_Witness ==
  \E s \in LiveSlots :
    /\ calls[s].op = "getRate"
    /\ calls[s].joined = "none"
    /\ calls[s].out = Resolved([expired |-> FALSE, rate |-> CACHED_RATES[calls[s].query].value])
    /\ FreshRecord(calls[s].query)
    /\ \E f \in LiveGets : fetches[f].query = calls[s].query /\ fetches[f].state = "pending"

\* C4: when the fetch a getRate call waited on has failed and a record of the pair is
\* cached, whatever its age, the call is resolved with expired: true and the cached value.
C4_StaleFallback ==
  \A s \in LiveSlots :
    LET c == calls[s]
    IN (/\ IsGetRate(c) /\ c.fetch # Null /\ GR(c).state # "pending"
        /\ fetches[c.fetch].state = "rejected"
        /\ CACHED_RATES[c.query] # undefined)
       => GR(c) = Resolved([expired |-> TRUE, rate |-> CACHED_RATES[c.query].value])

C4_Witness ==
  \E s \in LiveSlots :
    /\ calls[s].op = "getRate" /\ calls[s].joined = "started"
    /\ fetches[calls[s].fetch].state = "rejected"
    /\ CACHED_RATES[calls[s].query] # undefined
    /\ ~FreshRecord(calls[s].query)
    /\ calls[s].out = Resolved([expired |-> TRUE, rate |-> 5])

\* C5: when the fetch a getRate call waited on has failed and no record of the pair is
\* cached, the call fails with the very error the remote source produced.
C5_FailsWithRemoteError ==
  \A s \in LiveSlots :
    LET c == calls[s]
    IN (/\ IsGetRate(c) /\ c.fetch # Null /\ GR(c).state # "pending"
        /\ fetches[c.fetch].state = "rejected"
        /\ CACHED_RATES[c.query] = undefined)
       => GR(c) = Rejected(fetches[c.fetch].result)

C5_Witness ==
  \E s \in LiveSlots :
    /\ calls[s].op = "getRate" /\ calls[s].joined = "started"
    /\ fetches[calls[s].fetch].state = "rejected"
    /\ CACHED_RATES[calls[s].query] = undefined
    /\ calls[s].out = Rejected("http500")

\* C6: after a fetch for a pair has completed, a later fetchQuote call for the pair, or a
\* later getRate call that finds no fresh record, starts a new $.get and never receives
\* the result of the finished fetch, also when the call is made from inside a completion
\* callback of that fetch.
C6_NoCallGetsFinishedFetch ==
  \A s \in LiveSlots : calls[s].joined # "settled"

\* the state part of C7: what the cache and the caller hold once that fetch has succeeded
C7_Result ==
  \A s \in LiveSlots :
    LET c == calls[s]
    IN (/\ IsGetRate(c) /\ c.joined = "started" /\ ~c.hadRecord
        /\ fetches[c.fetch].state = "resolved")
       => /\ CACHED_RATES[c.query] =
               [type |-> "object", value |-> fetches[c.fetch].result, date |-> newDate(now)]
          /\ GR(c).state # "pending"
               => GR(c) = Resolved([expired |-> FALSE, rate |-> fetches[c.fetch].result])

\* C7: a getRate call for a pair with no cached record and no fetch in flight issues
\* exactly one $.get; when that fetch succeeds with rate r the cache holds {value: r,
\* date: the completion instant} for the pair and the call is resolved with
\* {rate: r, expired: false}.
C7_FirstFetchCached ==
  [][/\ \A s \in Slots, q \in Queries :
          (/\ Called(s, {"getRate", "convertAmount"}, q)
           /\ CACHED_RATES[q] = undefined
           /\ ~InFlight(q))
          => /\ Cardinality(NewGets) = 1
             /\ \A f \in NewGets :
                  /\ fetches'[f].query = q
                  /\ fetches'[f].state = "pending"
                  /\ calls'[s].fetch = f
     /\ C7_Result']_vars

C7_Witness ==
  \E s \in LiveSlots :
    /\ calls[s].op = "getRate" /\ calls[s].joined = "started" /\ ~calls[s].hadRecord
    /\ fetches[calls[s].fetch].state = "resolved"
    /\ calls[s].out = Resolved([expired |-> FALSE, rate |-> 7])
    /\ CACHED_RATES[calls[s].query].value = 7
    /\ now > 0

\* the state part of C8: a resolved caller of fetchQuote finds its rate already cached
C8_Written ==
  \A s \in LiveSlots :
    LET c == calls[s]
    IN (c.op = "fetchQuote" /\ c.out.state = "resolved")
       => /\ fetches[c.fetch].state = "resolved"
          /\ c.out = Resolved(fetches[c.fetch].result)
          /\ CACHED_RATES[c.query] =
               [type |-> "object", value |-> c.out.data, date |-> newDate(now)]

\* C8: fetchQuote does not look at the cache: with no fetch in flight for the pair it
\* issues a $.get even when a fresh record is cached, with a fetch in flight it gets the
\* promise of that fetch and issues nothing, and when the fetch succeeds the cache holds
\* the fetched rate with a new date by the time the caller is resolved with that rate.
C8_FetchQuoteBypassesCache ==
  [][/\ \A s \in Slots, q \in Queries :
          Called(s, {"fetchQuote"}, q)
          => IF InFlight(q)
             THEN /\ NewGets = {}
                  /\ calls'[s].fetch # Null
                  /\ LiveFetches[calls'[s].fetch].query = q
             ELSE /\ Cardinality(NewGets) = 1
                  /\ \A f \in NewGets : fetches'[f].query = q /\ calls'[s].fetch = f
     /\ C8_Written']_vars

C8_Witness ==
  \E s \in LiveSlots :
    /\ calls[s].op = "fetchQuote" /\ calls[s].joined = "started" /\ calls[s].hadRecord
    /\ FreshRecord(calls[s].query)
    /\ fetches[calls[s].fetch].state = "pending"
    /\ fetches[calls[s].fetch].query = calls[s].query

\* C9: a getRate call is resolved with expired: true only as a stale fallback (the fetch
\* it waited on failed and a record was cached); resolved from a fresh cache hit or from
\* a successful fetch it reports expired: false.
C9_ExpiredOnlyOnFallback ==
  \A s \in LiveSlots :
    LET c == calls[s]
    IN (IsGetRate(c) /\ GR(c).state = "resolved")
       => (GR(c).data.expired
             <=> /\ c.fetch # Null
                 /\ fetches[c.fetch].state = "rejected"
                 /\ CACHED_RATES[c.query] # undefined)

C9_Witness ==
  \E s \in LiveSlots, t \in LiveSlots :
    /\ calls[s].op = "getRate" /\ calls[s].joined = "started"
    /\ fetches[calls[s].fetch].state = "resolved"
    /\ calls[s].out.state = "resolved" /\ ~calls[s].out.data.expired
    /\ calls[t].op = "getRate" /\ calls[t].joined = "none"
    /\ calls[t].out.state = "resolved" /\ ~calls[t].out.data.expired

\* C10: convertAmount settles as the getRate call it makes: resolved with
\* {value: amount * rate, rate, expired} when getRate resolves with {rate, expired},
\* failed with the same error when getRate fails, pending while getRate is pending.
C10_ConvertFollowsGetRate ==
  \A s \in LiveSlots :
    LET c == calls[s]
    IN c.op = "convertAmount"
       => CASE c.gr.state = "pending" -> c.out = Pending
            [] c.gr.state = "resolved" ->
                 c.out = Resolved([expired |-> c.gr.data.expired, rate |-> c.gr.data.rate,
                                   value |-> c.amount * c.gr.data.rate])
            [] c.gr.state = "rejected" -> c.out = Rejected(c.gr.error)

C10_Witness ==
  \E s \in LiveSlots :
    /\ calls[s].op = "convertAmount"
    /\ calls[s].gr = Resolved([expired |-> TRUE, rate |-> 5])
    /\ calls[s].out = Resolved([expired |-> TRUE, rate |-> 5, value |-> 15])

\* C11: construction never fails when the persistent store is absent, unavailable or
\* holds unparseable content: the module is constructed, with an empty cache.
C11_ConstructionNeverFails ==
  (/\ issued = 0
   /\ \/ ~storageAvailable
      \/ localStorage[DEFAULT_NAME] \in {null, Corrupt})
  => /\ constructed
     /\ CACHED_RATES = EmptyRates

\* C12: a failure of the store while a cache write is mirrored never surfaces: once the
\* completion of a successful $.get has been handled, the record is in memory, every
\* caller that waited on the fetch is resolved with the fetched rate and the in-flight
\* entry of the key is gone, whether or not the store took the write.
C12_StoreFailureNotSurfaced ==
  \A f \in LiveGets :
    (fetches[f].state \in {"resolved", "thrown"} /\ firing = Null)
    => /\ CACHED_RATES[fetches[f].query].value = fetches[f].result
       /\ CONVERSIONS_IN_PROGRESS[fetches[f].query] # f
       /\ \A s \in LiveSlots :
            calls[s].fetch = f
            => /\ calls[s].out.state = "resolved"
               /\ calls[s].op = "fetchQuote" => calls[s].out.data = fetches[f].result
               /\ IsGetRate(calls[s]) => GR(calls[s]).data.rate = fetches[f].result

\* C13: config with a non-object argument leaves every setting as it was; with an
\* object it gives the settings named in the object their new values and leaves the
\* other settings, the cache, the persistent store and the in-flight table as they were.
C13_ConfigFrame ==
  [][\A options \in Options :
       config(options)
       => /\ CACHED_RATES' = CACHED_RATES
          /\ CONVERSIONS_IN_PROGRESS' = CONVERSIONS_IN_PROGRESS
          /\ localStorage' = localStorage
          /\ IF options.type = "object"
             THEN /\ DOMAIN SETTINGS' = DOMAIN SETTINGS
                  /\ \A k \in DOMAIN SETTINGS :
                       SETTINGS'[k] = IF k \in DOMAIN options.props
                                      THEN options.props[k] ELSE SETTINGS[k]
             ELSE SETTINGS' = SETTINGS]_vars

C13_Witness ==
  /\ SETTINGS.RATES_VALIDITY_HOURS = 0
  /\ SETTINGS.CACHE_TO_LOCAL_STORAGE = FALSE
  /\ SETTINGS.LOCAL_STORAGE_VARIABLE_NAME = DEFAULT_NAME
  /\ \E q \in Queries : CONVERSIONS_IN_PROGRESS[q] # Null /\ CACHED_RATES[q] # undefined

\* C14: when a registered fetch completes, the in-flight entry of its key is removed
\* before any waiting caller is settled: once a completion callback of a caller has
\* run, the in-flight table holds no entry for the key.
C14_EntryRemovedBeforeCallbacks ==
  (firing # Null /\ fetches[firing].fired >= 1)
  => CONVERSIONS_IN_PROGRESS[fetches[firing].query] = Null

C16_Classified ==
  \A q \in Queries :
    /\ isRateValid(q) <=> FreshRecord(q)
    /\ CACHED_RATES[q] # undefined
       => LET live == [CACHED_RATES[q] EXCEPT !.date = newDate(RecordTime(CACHED_RATES[q]))]
              text == [live EXCEPT !.date = toJSON(live.date)]
          IN /\ text.date.type = "string"
             /\ isRateExpired(live) = isRateExpired(text)
             /\ isRateExpired(live) <=>
                  (now - RecordTime(CACHED_RATES[q]) > SETTINGS.RATES_VALIDITY_HOURS)

\* C16: a cached record is fresh exactly when now - timestamp <= validity period: a
\* getRate call finding a record of that age, the boundary included, is served from the
\* cache without a fetch, and a record one unit older sends the call to the remote
\* fetch; the classification is the same whether the timestamp is a live date or the
\* same instant loaded as text.
C16_FreshnessBoundary ==
  /\ [][\A s \in Slots, q \in Queries :
          Called(s, {"getRate", "convertAmount"}, q)
          => IF /\ CACHED_RATES[q] # undefined
                /\ now - RecordTime(CACHED_RATES[q]) <= SETTINGS.RATES_VALIDITY_HOURS
             THEN /\ NewGets = {}
                  /\ calls'[s].fetch = Null
                  /\ GR(calls'[s]) =
                       Resolved([expired |-> FALSE, rate |-> CACHED_RATES[q].value])
             ELSE /\ calls'[s].fetch # Null
                  /\ IsFetch(fetches'[calls'[s].fetch])
                  /\ InFlight(q) \/ Cardinality(NewGets) = 1
       ]_vars
  /\ []C16_Classified

\* a record loaded as text, exactly one validity period old, has just been served from
\* the cache
C16_Witness ==
  \E s \in LiveSlots :
    /\ IsGetRate(calls[s]) /\ calls[s].fetch = Null
    /\ GR(calls[s]) = Resolved([expired |-> FALSE, rate |-> 5])
    /\ CACHED_RATES[calls[s].query].date.type = "string"
    /\ SETTINGS.RATES_VALIDITY_HOURS = HOURS_24
    /\ now - RecordTime(CACHED_RATES[calls[s].query]) = HOURS_24

\* the item of the persistent store holds a mapping with the records of rates: the same
\* pairs, each with the same value and the same instant
SavedEquals(item, rates) ==
  /\ item # null
  /\ JSONparse(item) # SyntaxError
  /\ \A q \in Queries :
       IF rates[q] = undefined
       THEN JSONparse(item)[q] = undefined
       ELSE /\ JSONparse(item)[q] # undefined
            /\ JSONparse(item)[q].value = rates[q].value
            /\ getTime(parseDate(JSONparse(item)[q].date)) = RecordTime(rates[q])

\* this step is the completion of a successful $.get, which writes the cache
CacheWrite ==
  \E f \in Slots :
    /\ IsFetch(fetches[f]) /\ fetches[f].state = "pending"
    /\ IsFetch(fetches'[f]) /\ fetches'[f].state = "resolved"

\* C17: with persistence enabled and the store available, after every cache write
\* the mapping saved under the configured name equals the whole in-memory cache; with
\* persistence disabled a cache write leaves the store as it was.
C17_StoreMirrorsCache ==
  [][CacheWrite
     => /\ (SETTINGS.CACHE_TO_LOCAL_STORAGE /\ storageAvailable)
           => SavedEquals(localStorage'[SETTINGS.LOCAL_STORAGE_VARIABLE_NAME], CACHED_RATES')
        /\ ~SETTINGS.CACHE_TO_LOCAL_STORAGE => localStorage' = localStorage]_vars

\* both pairs are cached, one record reloaded from the store and one fetched, and the
\* store holds both
C17_Witness ==
  /\ SETTINGS.CACHE_TO_LOCAL_STORAGE /\ storageAvailable
  /\ firing # Null /\ fetches[firing].state = "resolved" /\ fetches[firing].fired = 0
  /\ \A q \in Queries : CACHED_RATES[q] # undefined
  /\ \E q \in Queries : CACHED_RATES[q].date.type = "string"
  /\ \E q \in Queries : CACHED_RATES[q].date = newDate(now)
  /\ SavedEquals(localStorage[SETTINGS.LOCAL_STORAGE_VARIABLE_NAME], CACHED_RATES)

\* this step is the failure of a $.get, or part of the handling of that failure
FailureHandling ==
  \/ \E f \in Slots :
       /\ IsFetch(fetches[f]) /\ fetches[f].state = "pending"
       /\ IsFetch(fetches'[f]) /\ fetches'[f].state = "rejected"
  \/ firing # Null /\ fetches[firing].state = "rejected"

\* C18: a failed remote fetch changes nothing in the cache or in the persistent store,
\* neither when it fails nor while its failure is delivered to the callers.
C18_FailureChangesNothing ==
  [][FailureHandling => UNCHANGED <<CACHED_RATES, localStorage>>]_vars

\* the failure of a fetch for a cached pair has been delivered, record and store intact
C18_Witness ==
  /\ firing # Null
  /\ fetches[firing].state = "rejected"
  /\ fetches[firing].fired = Len(fetches[firing].waiters)
  /\ CACHED_RATES[fetches[firing].query] =
       [type |-> "object", value |-> 7, date |-> newDate(0)]
  /\ SavedEquals(localStorage[DEFAULT_NAME], CACHED_RATES)
  /\ now > 0

\* the state part of C19: no getRate or convertAmount call made when a record of its
\* pair existed has been rejected
C19_NotRejected ==
  \A s \in LiveSlots :
    (IsGetRate(calls[s]) /\ calls[s].hadRecord)
    => /\ GR(calls[s]).state # "rejected"
       /\ calls[s].out.state # "rejected"

\* C19: a cached record is never removed, and once a record of a pair exists no later
\* getRate or convertAmount call for the pair is rejected.
C19_RecordsStay ==
  [][/\ \A q \in Queries : CACHED_RATES[q] # undefined => CACHED_RATES'[q] # undefined
     /\ C19_NotRejected']_vars

\* a convertAmount call made over a stale record, whose fetch failed, is resolved
C19_Witness ==
  \E s \in LiveSlots :
    /\ calls[s].op = "convertAmount" /\ calls[s].hadRecord
    /\ calls[s].fetch # Null
    /\ fetches[calls[s].fetch].state = "rejected"
    /\ calls[s].out.state = "resolved"
    /\ calls[s].out.data.expired
    /\ \A q \in Queries : CACHED_RATES[q] # undefined

\* the state part of C20: a call that is not settled yet waits on a fetch, and its
\* callbacks are in the list of that fetch once, not run yet
C20_Waiting ==
  \A s \in LiveSlots :
    calls[s].out.state = "pending"
    => /\ calls[s].fetch # Null
       /\ IsFetch(fetches[calls[s].fetch])
       /\ fetches[calls[s].fetch].state \in {"pending", "resolved", "rejected"}
       /\ LET w == fetches[calls[s].fetch].waiters
          IN /\ Cardinality({i \in 1..Len(w) : w[i] = s}) = 1
             /\ \A i \in 1..Len(w) : w[i] = s => i > fetches[calls[s].fetch].fired

\* the step part of C20: the outcome of a settled call is never replaced
C20_Once ==
  \A s \in Slots :
    (IsCall(calls[s]) /\ calls[s].out.state # "pending")
    => \/ calls'[s] = calls[s]
       \/ calls'[s] = Free
       \/ issued' = issued + 1 /\ ~IsCall(LiveCalls[s])

====
